---- MODULE Spec2Model ----
(***************************************************************************)
(* A model of st_dagnositc.core: SchemaDefinition (schema.py), the         *)
(* ColumnMapping / ImportResult records (models.py) and the mapping        *)
(* validator, applier and engine facade of processor.py, together with    *)
(* the ColumnMapper of processor.py and the file adapters of loader.py.    *)
(*                                                                         *)
(* A polars expression is lazy: DataProcessor.process_dataframe only       *)
(* BUILDS expressions in its loop (pl.col, cast, str.strptime,             *)
(* map_elements, alias); they are evaluated by df.select.  The model keeps *)
(* the two phases apart: BuildLoop builds expression records, Select       *)
(* evaluates them on the table.                                            *)
(***************************************************************************)
EXTENDS Integers, Sequences, FiniteSets, TLC

VARIABLES schema, df, mappings, op, validation_errors, result, expressions,
          applier_calls, raised, suggested, column_name, suggestion,
          source, asked, can_load_answer, load_call,
          added, strings, similarity, detected

vars == <<schema, df, mappings, op, validation_errors, result, expressions,
          applier_calls, raised, suggested, column_name, suggestion,
          source, asked, can_load_answer, load_call,
          added, strings, similarity, detected>>

(***************************************************************************)
(* Bounds of the model.                                                    *)
(***************************************************************************)
MaxMappings == 2
MaxRows == 2
MaxSchemaCols == 2
MaxValidated == 4

(***************************************************************************)
(* models.py: DataType.                                                    *)
(***************************************************************************)
AUTO == "auto"
STRING_T == "string"
INTEGER == "integer"
FLOAT == "float"
BOOLEAN_T == "boolean"
DATETIME == "datetime"
DATE == "date"
TIME == "time"
DataType == {AUTO, STRING_T, INTEGER, FLOAT, BOOLEAN_T, DATETIME, DATE, TIME}

(***************************************************************************)
(* Column names are strings, modelled as sequences of characters so that   *)
(* the name matcher can look into them.  Only equality and emptiness of a  *)
(* name matter to the validator and the applier.                           *)
(***************************************************************************)
EmptyName == <<>>
TableColumnNames == << <<"a">>, <<"b">>, <<"c">> >>
MissingSources == { <<"y", "y">>, <<"z", "z">> }

(***************************************************************************)
(* Cells of a table: <<kind, text>>.  A null cell is Null.                 *)
(***************************************************************************)
Null == <<"null", "">>
StrCell(s) == <<"str", s>>
IntCell(s) == <<"int", s>>
FloatCell(s) == <<"float", s>>
BoolCell(s) == <<"bool", s>>
TemporalCell(kind, s) == <<kind, s>>
MappedCell(v) == <<"mapped", v[1], v[2]>>

\* Texts of the value universe, by what polars' non-strict parsers make of them.
IntText == {"7", "1", "2"}
FloatText == IntText
TemporalText == {"2023-01-01"}
TrueText == {"true", "1", "yes", "y"}
ToLowercase(s) == IF s = "YES" THEN "yes" ELSE s

(***************************************************************************)
(* The tables the inputs are drawn from: columns a (text), b (integer,     *)
(* with a null) and c (text, never mapped), without rows and with the      *)
(* first MaxRows rows.                                                     *)
(***************************************************************************)
ColumnA == <<StrCell("7"), StrCell("abc"), StrCell("2023-01-01")>>
ColumnB == <<IntCell("1"), Null, IntCell("2")>>
ColumnC == <<StrCell("YES"), StrCell("y"), StrCell("x")>>

Pad(col, n) == [i \in 1..n |-> IF i <= Len(col) THEN col[i] ELSE Null]

TableOfRows(n) ==
    << [name |-> TableColumnNames[1], dtype |-> "Utf8", values |-> Pad(ColumnA, n)],
       [name |-> TableColumnNames[2], dtype |-> "Int64", values |-> Pad(ColumnB, n)],
       [name |-> TableColumnNames[3], dtype |-> "Utf8", values |-> Pad(ColumnC, n)] >>

Tables == {TableOfRows(0), TableOfRows(MaxRows)}

Columns(t) == [i \in 1..Len(t) |-> t[i].name]
ColumnSet(t) == {t[i].name : i \in 1..Len(t)}
Height(t) == IF Len(t) = 0 THEN 0 ELSE Len(t[1].values)
Shape(t) == <<Height(t), Len(t)>>
GetColumn(t, name) == t[CHOOSE i \in 1..Len(t) : t[i].name = name]

(***************************************************************************)
(* models.py: ColumnMapping.  transformation_func is None (NoFunc) or one  *)
(* of three callables, told apart by what polars does with them:           *)
(*   F_OK          returns a value for every element;                      *)
(*   F_RAISES      raises when it is called on an element;                 *)
(*   F_UNBUILDABLE makes Expr.map_elements itself raise, while the         *)
(*                 expression is being built.                              *)
(***************************************************************************)
NoFunc == "None"
F_OK == "f_ok"
F_RAISES == "f_raises"
F_UNBUILDABLE == "f_unbuildable"

ColumnMapping(source_column, target_column, data_type, include, transformation_func) ==
    [source_column |-> source_column, target_column |-> target_column,
     data_type |-> data_type, include |-> include, required |-> FALSE,
     transformation_func |-> transformation_func]

(***************************************************************************)
(* Error and warning strings, by their fixed part and what they name.      *)
(***************************************************************************)
Message(kind, name, names, list) ==
    [kind |-> kind, name |-> name, names |-> names, list |-> list]
NoMappingsProvided == Message("No column mappings provided", EmptyName, {}, <<>>)
SourceNotFound(name) == Message("Source column not found", name, {}, <<>>)
NoValidMappings == Message("No valid mappings to process", EmptyName, {}, <<>>)
ColumnTransformationFailed == Message("Column transformation failed", EmptyName, {}, <<>>)
TransformationFailedFor(name) == Message("Transformation failed for", name, {}, <<>>)
MissingRequiredColumns(names) == Message("Missing required columns", EmptyName, names, <<>>)
DuplicateTargetColumns(list) == Message("Duplicate target columns", EmptyName, {}, list)

(***************************************************************************)
(* models.py: ImportResult.  data is None (NoData) or a table.             *)
(***************************************************************************)
NoData == [present |-> FALSE, table |-> <<>>]
SomeData(t) == [present |-> TRUE, table |-> t]
NoMetadata == [set |-> FALSE, original_shape |-> <<0, 0>>,
               processed_shape |-> <<0, 0>>, columns_mapped |-> 0]

ImportResult(success, errors) ==
    [success |-> success, data |-> NoData, mappings |-> <<>>, errors |-> errors,
     warnings |-> <<>>, metadata |-> NoMetadata]

(***************************************************************************)
(* Lazy polars expressions: pl.col(root), then an optional cast or parse,  *)
(* then an optional map_elements, then alias.                              *)
(***************************************************************************)
\* Mutant of Col: the expression reads the table's first column.
Col_first(name) == [root |-> TableColumnNames[1], cast |-> AUTO, func |-> NoFunc, alias |-> name]
Col(name) == [root |-> name, cast |-> AUTO, func |-> NoFunc, alias |-> name]
MapElements(expr, func) == [expr EXCEPT !.func = func]
\* Mutant of Alias: the output keeps the name it had.
Alias_dropped(expr, name) == expr
Alias(expr, name) == [expr EXCEPT !.alias = name]

\* DataProcessor._convert_column_type: every branch only builds an expression,
\* which does not raise, so the except branch returns nothing else.
ConvertColumnType(expr, target_type) ==
    IF target_type \in {STRING_T, INTEGER, FLOAT, BOOLEAN_T, DATETIME, DATE, TIME}
    THEN [expr EXCEPT !.cast = target_type]
    ELSE expr

(***************************************************************************)
(* Evaluation of an expression by df.select.                               *)
(***************************************************************************)
CastCell(target_type, v) ==
    IF v = Null THEN Null
    ELSE CASE target_type = STRING_T -> StrCell(v[2])
           [] target_type = INTEGER ->
                IF v[1] = "int" THEN v
                ELSE IF v[2] \in IntText THEN IntCell(v[2]) ELSE Null
           [] target_type = FLOAT ->
                IF v[1] = "int" \/ v[2] \in FloatText THEN FloatCell(v[2]) ELSE Null
           [] target_type = BOOLEAN_T ->
                IF ToLowercase(v[2]) \in TrueText THEN BoolCell("true") ELSE BoolCell("false")
           [] target_type \in {DATETIME, DATE, TIME} ->
                IF v[2] \in TemporalText THEN TemporalCell(target_type, v[2]) ELSE Null
           [] OTHER -> v

CastDtype(target_type, dtype) ==
    CASE target_type = STRING_T -> "Utf8"
      [] target_type = INTEGER -> "Int64"
      [] target_type = FLOAT -> "Float64"
      [] target_type = BOOLEAN_T -> "Boolean"
      [] target_type = DATETIME -> "Datetime"
      [] target_type = DATE -> "Date"
      [] target_type = TIME -> "Time"
      [] OTHER -> dtype

\* str.strptime(..., strict=False) without a format raises on a column that is
\* not text and on a text column none of whose values shows a known format.
CastRaises(target_type, column) ==
    /\ target_type \in {DATETIME, DATE, TIME}
    /\ \/ column.dtype # "Utf8"
       \/ /\ \E i \in 1..Len(column.values) : column.values[i] # Null
          /\ \A i \in 1..Len(column.values) :
                column.values[i] = Null \/ column.values[i][2] \notin TemporalText

\* map_elements skips nulls; the function is called on every other element.
FuncRaises(func, values) ==
    func = F_RAISES /\ \E i \in 1..Len(values) : values[i] # Null

ApplyFunc(func, v) == IF func = NoFunc \/ v = Null THEN v ELSE MappedCell(v)

Evaluate(t, expr) ==
    LET column == GetColumn(t, expr.root)
        cast == [i \in 1..Len(column.values) |-> CastCell(expr.cast, column.values[i])]
    IN [raises |-> CastRaises(expr.cast, column) \/ FuncRaises(expr.func, cast),
        column |-> [name |-> expr.alias,
                    dtype |-> IF expr.func = NoFunc
                              THEN CastDtype(expr.cast, column.dtype) ELSE "Utf8",
                    values |-> [i \in 1..Len(cast) |-> ApplyFunc(expr.func, cast[i])]]]

DuplicateAlias(exprs) ==
    \E i, j \in 1..Len(exprs) : i # j /\ exprs[i].alias = exprs[j].alias

\* df.select(expressions): raises on two outputs of one name and when the
\* evaluation of an expression raises.
Select(t, exprs) ==
    LET out == [i \in 1..Len(exprs) |-> Evaluate(t, exprs[i])]
    IN IF DuplicateAlias(exprs) \/ \E i \in 1..Len(exprs) : out[i].raises
       THEN [raises |-> TRUE, table |-> <<>>]
       ELSE [raises |-> FALSE, table |-> [i \in 1..Len(exprs) |-> out[i].column]]

(***************************************************************************)
(* DataProcessor.process_dataframe.                                        *)
(***************************************************************************)
\* Mutant of IncludedMappings: the empty target is not filtered out.
IncludedMappings_any_target(ms) == SelectSeq(ms, LAMBDA m : m.include)

\* included_mappings = [m for m in mappings if m.include and m.target_column]
IncludedMappings(ms) ==
    SelectSeq(ms, LAMBDA m : m.include /\ m.target_column # EmptyName)

\* Mutant of LoopBody: a mapping whose source is missing is skipped unrecorded.
LoopBody_silent(t, mapping, acc) ==
    IF mapping.source_column \notin ColumnSet(t)
    THEN acc
    ELSE [acc EXCEPT !.expressions =
            Append(@, Alias(Col(mapping.source_column), mapping.target_column))]

\* One pass of the loop body over `mapping`; acc holds result.errors,
\* result.warnings and the local list expressions.
LoopBody(t, mapping, acc) ==
    IF mapping.source_column \notin ColumnSet(t)
    THEN [acc EXCEPT !.errors = Append(@, SourceNotFound(mapping.source_column))]
    ELSE LET expr0 == Col(mapping.source_column)
             expr1 == IF mapping.data_type # AUTO
                      THEN ConvertColumnType(expr0, mapping.data_type)
                      ELSE expr0
             func == mapping.transformation_func
             expr2 == IF func # NoFunc /\ func # F_UNBUILDABLE
                      THEN MapElements(expr1, func)
                      ELSE expr1
         IN [errors |-> acc.errors,
             warnings |-> IF func = F_UNBUILDABLE
                          THEN Append(acc.warnings,
                                      TransformationFailedFor(mapping.source_column))
                          ELSE acc.warnings,
             expressions |-> Append(acc.expressions,
                                    Alias(expr2, mapping.target_column))]

\* Mutant of BuildLoop: the loop stops at the first missing source.
RECURSIVE BuildLoop_break(_, _, _)
BuildLoop_break(t, included, acc) ==
    IF included = <<>> THEN acc
    ELSE IF Head(included).source_column \notin ColumnSet(t)
         THEN LoopBody(t, Head(included), acc)
         ELSE BuildLoop_break(t, Tail(included), LoopBody(t, Head(included), acc))

RECURSIVE BuildLoop(_, _, _)
BuildLoop(t, included, acc) ==
    IF included = <<>> THEN acc
    ELSE BuildLoop(t, Tail(included), LoopBody(t, Head(included), acc))

\* Mutant of Project: the failure of df.select is not caught.
Project_unguarded(t, included, acc) ==
    IF acc.expressions # <<>>
    THEN LET sel == Select(t, acc.expressions)
         IN IF ~sel.raises
            THEN [raised |-> FALSE,
                  result |-> [success |-> TRUE,
                              data |-> SomeData(sel.table),
                              mappings |-> included,
                              errors |-> acc.errors,
                              warnings |-> acc.warnings,
                              metadata |-> [set |-> TRUE,
                                            original_shape |-> Shape(t),
                                            processed_shape |-> Shape(sel.table),
                                            columns_mapped |-> Len(included)]]]
            ELSE [raised |-> TRUE, result |-> ImportResult(FALSE, <<>>)]
    ELSE [raised |-> FALSE,
          result |-> [ImportResult(FALSE, Append(acc.errors, NoValidMappings))
                        EXCEPT !.warnings = acc.warnings]]

\* The state of the call after the loop and the branch on `expressions`: the
\* result it returns, and whether an exception leaves the call.  Both try
\* blocks end in `except Exception`, which turns the failure into an error.
Project(t, included, acc) ==
    IF acc.expressions # <<>>
    THEN LET sel == Select(t, acc.expressions)
         IN IF ~sel.raises
            THEN [raised |-> FALSE,
                  result |-> [success |-> TRUE,
                              data |-> SomeData(sel.table),
                              mappings |-> included,
                              errors |-> acc.errors,
                              warnings |-> acc.warnings,
                              metadata |-> [set |-> TRUE,
                                            original_shape |-> Shape(t),
                                            processed_shape |-> Shape(sel.table),
                                            columns_mapped |-> Len(included)]]]
            ELSE [raised |-> FALSE,
                  result |-> [ImportResult(FALSE, Append(acc.errors, ColumnTransformationFailed))
                                EXCEPT !.warnings = acc.warnings]]
    ELSE [raised |-> FALSE,
          result |-> [ImportResult(FALSE, Append(acc.errors, NoValidMappings))
                        EXCEPT !.warnings = acc.warnings]]

\* The call: the result it returns and the expressions its loop built.
process_dataframe(t, ms) ==
    LET included == IncludedMappings(ms)
    IN IF included = <<>>
       THEN [result |-> ImportResult(FALSE, <<NoMappingsProvided>>),
             expressions |-> <<>>, raised |-> FALSE]
       ELSE LET acc == BuildLoop(t, included,
                           [errors |-> <<>>, warnings |-> <<>>, expressions |-> <<>>])
                projected == Project(t, included, acc)
            IN [result |-> projected.result,
                expressions |-> acc.expressions,
                raised |-> projected.raised]

(***************************************************************************)
(* schema.py: SchemaDefinition.  columns is a dict, which keeps insertion  *)
(* order and keeps a key's position when its value is overwritten: a       *)
(* sequence of entries with distinct names.                                *)
(***************************************************************************)
SchemaColumn(name, data_type, required, description) ==
    [name |-> name, data_type |-> data_type, required |-> required,
     description |-> description]

HasColumn(sch, name) == \E i \in 1..Len(sch) : sch[i].name = name

\* Mutant of add_column: a name already present keeps its first definition.
add_column_keeps_first(sch, name, data_type, required, description) ==
    IF HasColumn(sch, name)
    THEN sch
    ELSE Append(sch, SchemaColumn(name, data_type, required, description))

add_column(sch, name, data_type, required, description) ==
    IF HasColumn(sch, name)
    THEN [i \in 1..Len(sch) |->
            IF sch[i].name = name
            THEN SchemaColumn(name, data_type, required, description)
            ELSE sch[i]]
    ELSE Append(sch, SchemaColumn(name, data_type, required, description))

Names(entries) == [i \in 1..Len(entries) |-> entries[i].name]
get_required_columns(sch) == Names(SelectSeq(sch, LAMBDA c : c.required))
get_optional_columns(sch) == Names(SelectSeq(sch, LAMBDA c : ~c.required))

(***************************************************************************)
(* DagnosticEngine.validate_mappings and process_data.                     *)
(***************************************************************************)
Range(seq) == {seq[i] : i \in 1..Len(seq)}

\* Mutant of MappedTargets: excluded mappings count as mapped.
MappedTargets_any(ms) == {ms[i].target_column : i \in 1..Len(ms)}

\* mapped_targets = {m.target_column for m in mappings if m.include}
MappedTargets(ms) == {ms[i].target_column : i \in {j \in 1..Len(ms) : ms[j].include}}

\* missing_required = set(required_cols) - mapped_targets
MissingRequired(sch, ms) == Range(get_required_columns(sch)) \ MappedTargets(ms)

\* Mutant of Counted: excluded mappings are counted.
Counted_excluded_too(mapping) == mapping.target_column # EmptyName

\* Whether mapping is counted in target_counts.
Counted(mapping) == mapping.include /\ mapping.target_column # EmptyName

TargetCount(ms, name) ==
    Cardinality({i \in 1..Len(ms) : Counted(ms[i]) /\ ms[i].target_column = name})

\* The keys of target_counts, in the order of their first insertion.
RECURSIVE CountedKeys(_, _)
CountedKeys(ms, seen) ==
    IF ms = <<>> THEN <<>>
    ELSE LET m == Head(ms)
         IN IF Counted(m) /\ m.target_column \notin seen
            THEN <<m.target_column>> \o CountedKeys(Tail(ms), seen \cup {m.target_column})
            ELSE CountedKeys(Tail(ms), seen)

\* duplicates = [col for col, count in target_counts.items() if count > 1]
Duplicates(ms) ==
    SelectSeq(CountedKeys(ms, {}), LAMBDA name : TargetCount(ms, name) > 1)

validate_mappings(sch, ms) ==
    (IF MissingRequired(sch, ms) # {}
     THEN <<MissingRequiredColumns(MissingRequired(sch, ms))>> ELSE <<>>)
    \o
    (IF Duplicates(ms) # <<>>
     THEN <<DuplicateTargetColumns(Duplicates(ms))>> ELSE <<>>)

\* Mutant of Delegates: the applier runs whatever validation returned.
Delegates_always(errors) == TRUE

\* Whether process_data goes on to DataProcessor.process_dataframe.
Delegates(errors) == errors = <<>>

\* The call: what it returns, the expressions the applier built and how often
\* the applier was invoked.
process_data(sch, t, ms) ==
    LET errors == validate_mappings(sch, ms)
        applied == process_dataframe(t, ms)
    IN IF ~Delegates(errors)
       THEN [result |-> ImportResult(FALSE, errors), expressions |-> <<>>,
             validation |-> errors, calls |-> 0, raised |-> FALSE]
       ELSE [result |-> applied.result, expressions |-> applied.expressions,
             validation |-> errors, calls |-> 1, raised |-> applied.raised]

(***************************************************************************)
(* Strings as sequences of characters: str.lower, str.strip, the `in` of   *)
(* two strings, and the character classes \w and \s of re.                 *)
(***************************************************************************)
UpperChars == <<"A", "B", "C", "D", "E", "F", "G", "H", "I", "J", "K", "L", "M", "N", "O", "P", "Q", "R", "S", "T", "U", "V", "W", "X", "Y", "Z">>
LowerChars == <<"a", "b", "c", "d", "e", "f", "g", "h", "i", "j", "k", "l", "m", "n", "o", "p", "q", "r", "s", "t", "u", "v", "w", "x", "y", "z">>
DigitChars == {"0", "1", "2", "3", "4", "5", "6", "7", "8", "9"}
WhitespaceChars == {" ", "\t", "\n"}
WordChars == Range(UpperChars) \cup Range(LowerChars) \cup DigitChars \cup {"_"}

LowerChar(c) ==
    IF \E i \in 1..Len(UpperChars) : UpperChars[i] = c
    THEN LowerChars[CHOOSE i \in 1..Len(UpperChars) : UpperChars[i] = c]
    ELSE c

lower(str) == [i \in 1..Len(str) |-> LowerChar(str[i])]

RECURSIVE lstrip(_)
lstrip(str) ==
    IF str # <<>> /\ Head(str) \in WhitespaceChars THEN lstrip(Tail(str)) ELSE str

RECURSIVE rstrip(_)
rstrip(str) ==
    IF str # <<>> /\ str[Len(str)] \in WhitespaceChars
    THEN rstrip(SubSeq(str, 1, Len(str) - 1))
    ELSE str

strip(str) == rstrip(lstrip(str))

\* sub in str
Contains(sub, str) ==
    \E i \in 0..(Len(str) - Len(sub)) : SubSeq(str, i + 1, i + Len(sub)) = sub

(***************************************************************************)
(* ColumnMapper.  A similarity score is the fraction <<numerator,          *)
(* denominator>>: 1.0 is <<1, 1>>, 0.8 is <<4, 5>> and the threshold 0.6   *)
(* is <<3, 5>>; scores are compared by cross-multiplication.               *)
(***************************************************************************)
similarity_threshold == <<3, 5>>

\* Mutant of Exceeds: a score equal to the threshold passes.
Exceeds_or_equals(score, threshold) == score[1] * threshold[2] >= threshold[1] * score[2]

Exceeds(score, threshold) == score[1] * threshold[2] > threshold[1] * score[2]

\* Mutant of _calculate_similarity: the substring rule is skipped.
_calculate_similarity_no_substring(str1, str2) ==
    IF str1 = str2 THEN <<1, 1>>
    ELSE IF Cardinality(Range(str1) \cup Range(str2)) > 0
         THEN <<Cardinality(Range(str1) \cap Range(str2)),
                Cardinality(Range(str1) \cup Range(str2))>>
         ELSE <<0, 1>>

_calculate_similarity(str1, str2) ==
    IF str1 = str2 THEN <<1, 1>>
    ELSE IF Contains(str1, str2) \/ Contains(str2, str1) THEN <<4, 5>>
    ELSE LET set1 == Range(str1)
             set2 == Range(str2)
             intersection == Cardinality(set1 \cap set2)
             union == Cardinality(set1 \cup set2)
         IN IF union > 0 THEN <<intersection, union>> ELSE <<0, 1>>

\* Mutant of RemoveNonWord: the underscore is removed with the punctuation.
RemoveNonWord_underscore_too(str) ==
    SelectSeq(str, LAMBDA c : c \in (WordChars \ {"_"}) \cup WhitespaceChars)

\* re.sub(r"[^\w\s]", "", ...)
RemoveNonWord(str) == SelectSeq(str, LAMBDA c : c \in WordChars \cup WhitespaceChars)

\* re.sub(r"\s+", "_", ...)
RECURSIVE CollapseWhitespace(_)
CollapseWhitespace(str) ==
    IF str = <<>> THEN <<>>
    ELSE IF Head(str) \in WhitespaceChars
         THEN <<"_">> \o CollapseWhitespace(lstrip(str))
         ELSE <<Head(str)>> \o CollapseWhitespace(Tail(str))

_clean_column_name(col_name) ==
    CollapseWhitespace(strip(RemoveNonWord(lower(col_name))))

\* The dict common_patterns, in the order of its keys.
common_patterns ==
    <<
       [target |-> <<"n", "a", "m", "e">>,
        patterns |-> << <<"n", "a", "m", "e">>,
                     <<"f", "u", "l", "l", "_", "n", "a", "m", "e">>,
                     <<"f", "u", "l", "l", "n", "a", "m", "e">>,
                     <<"c", "u", "s", "t", "o", "m", "e", "r", "_", "n", "a", "m", "e">>,
                     <<"u", "s", "e", "r", "_", "n", "a", "m", "e">> >>],
       [target |-> <<"e", "m", "a", "i", "l">>,
        patterns |-> << <<"e", "m", "a", "i", "l">>,
                     <<"e", "m", "a", "i", "l", "_", "a", "d", "d", "r", "e", "s", "s">>,
                     <<"e", "_", "m", "a", "i", "l">>,
                     <<"m", "a", "i", "l">> >>],
       [target |-> <<"p", "h", "o", "n", "e">>,
        patterns |-> << <<"p", "h", "o", "n", "e">>,
                     <<"t", "e", "l", "e", "p", "h", "o", "n", "e">>,
                     <<"m", "o", "b", "i", "l", "e">>,
                     <<"c", "e", "l", "l">>,
                     <<"p", "h", "o", "n", "e", "_", "n", "u", "m", "b", "e", "r">> >>],
       [target |-> <<"a", "g", "e">>,
        patterns |-> << <<"a", "g", "e">>,
                     <<"y", "e", "a", "r", "s", "_", "o", "l", "d">>,
                     <<"b", "i", "r", "t", "h", "_", "y", "e", "a", "r">> >>],
       [target |-> <<"c", "i", "t", "y">>,
        patterns |-> << <<"c", "i", "t", "y">>,
                     <<"l", "o", "c", "a", "t", "i", "o", "n">>,
                     <<"t", "o", "w", "n">>,
                     <<"m", "u", "n", "i", "c", "i", "p", "a", "l", "i", "t", "y">> >>],
       [target |-> <<"c", "o", "u", "n", "t", "r", "y">>,
        patterns |-> << <<"c", "o", "u", "n", "t", "r", "y">>,
                     <<"n", "a", "t", "i", "o", "n">>,
                     <<"c", "o", "u", "n", "t", "r", "y", "_", "c", "o", "d", "e">> >>],
       [target |-> <<"a", "d", "d", "r", "e", "s", "s">>,
        patterns |-> << <<"a", "d", "d", "r", "e", "s", "s">>,
                     <<"s", "t", "r", "e", "e", "t">>,
                     <<"l", "o", "c", "a", "t", "i", "o", "n">>,
                     <<"a", "d", "d", "r">> >>],
       [target |-> <<"d", "a", "t", "e">>,
        patterns |-> << <<"d", "a", "t", "e">>,
                     <<"c", "r", "e", "a", "t", "e", "d", "_", "a", "t">>,
                     <<"t", "i", "m", "e", "s", "t", "a", "m", "p">>,
                     <<"t", "i", "m", "e">> >>],
       [target |-> <<"i", "d">>,
        patterns |-> << <<"i", "d">>,
                     <<"i", "d", "e", "n", "t", "i", "f", "i", "e", "r">>,
                     <<"k", "e", "y">>,
                     <<"p", "r", "i", "m", "a", "r", "y", "_", "k", "e", "y">> >>]
    >>

MatchesGroup(group, source_lower) ==
    \E i \in 1..Len(group.patterns) : Contains(group.patterns[i], source_lower)

\* The first schema column whose similarity exceeds the threshold.
SchemaMatches(sch, source_lower) ==
    SelectSeq(Names(sch),
              LAMBDA target_col :
                  Exceeds(_calculate_similarity(source_lower, lower(target_col)),
                          similarity_threshold))

\* Mutant of PatternMatches: the groups are scanned from the last to the first.
PatternMatches_reversed(source_lower) ==
    SelectSeq([i \in 1..Len(common_patterns) |->
                  common_patterns[Len(common_patterns) + 1 - i]],
              LAMBDA group : MatchesGroup(group, source_lower))

PatternMatches(source_lower) ==
    SelectSeq(common_patterns, LAMBDA group : MatchesGroup(group, source_lower))

_suggest_target_column(sch, source_col) ==
    LET source_lower == strip(lower(source_col))
        in_schema == SchemaMatches(sch, source_lower)
        in_patterns == PatternMatches(source_lower)
    IN IF in_schema # <<>>
       THEN [target |-> Head(in_schema), by |-> "schema"]
       ELSE IF in_patterns # <<>>
            THEN [target |-> Head(in_patterns).target, by |-> "pattern"]
            ELSE [target |-> _clean_column_name(source_col), by |-> "clean"]


(***************************************************************************)
(* ColumnMapper._detect_column_type and suggest_mappings.                  *)
(***************************************************************************)
SampleSize == 100

\* Mutant of IntegerDtypes: the unsigned integer types are left out.
IntegerDtypes_signed == {"Int8", "Int16", "Int32", "Int64"}

IntegerDtypes == {"Int8", "Int16", "Int32", "Int64", "UInt8", "UInt16", "UInt32", "UInt64"}

\* df_col.head(100).to_series().drop_nulls()
Sample(column) ==
    SelectSeq(SubSeq(column.values, 1,
                     IF Len(column.values) < SampleSize
                     THEN Len(column.values) ELSE SampleSize),
              LAMBDA v : v # Null)

\* The non-null values of the column cast to Float64 with strict=False.
NumericCount(column) ==
    Cardinality({i \in 1..Len(column.values) : CastCell(FLOAT, column.values[i]) # Null})

\* Mutant of _detect_column_type: the probes run on an empty sample too.
_detect_column_type_unguarded(column) ==
    IF column.dtype \in IntegerDtypes THEN INTEGER
    ELSE IF column.dtype \in {"Float32", "Float64"} THEN FLOAT
    ELSE IF column.dtype = "Boolean" THEN BOOLEAN_T
    ELSE IF column.dtype \in {"Date", "Datetime"} THEN DATETIME
    ELSE IF column.dtype = "Time" THEN TIME
    ELSE IF column.dtype = "Utf8"
         THEN IF ~CastRaises(DATETIME, column) THEN DATETIME
              ELSE IF NumericCount(column) * 10 > Len(Sample(column)) * 8 THEN FLOAT
              ELSE STRING_T
    ELSE STRING_T

_detect_column_type(column) ==
    IF column.dtype \in IntegerDtypes THEN INTEGER
    ELSE IF column.dtype \in {"Float32", "Float64"} THEN FLOAT
    ELSE IF column.dtype = "Boolean" THEN BOOLEAN_T
    ELSE IF column.dtype \in {"Date", "Datetime"} THEN DATETIME
    ELSE IF column.dtype = "Time" THEN TIME
    ELSE IF column.dtype = "Utf8" /\ Len(Sample(column)) > 0
         THEN IF ~CastRaises(DATETIME, column) THEN DATETIME
              ELSE IF NumericCount(column) * 10 > Len(Sample(column)) * 8 THEN FLOAT
              ELSE STRING_T
    ELSE STRING_T

\* Mutant of suggest_mappings: required is copied from the matched schema column.
suggest_mappings_schema_required(sch, t) ==
    [i \in 1..Len(t) |->
        [ColumnMapping(t[i].name, _suggest_target_column(sch, t[i].name).target,
                       _detect_column_type(t[i]), TRUE, NoFunc)
            EXCEPT !.required =
                \E j \in 1..Len(sch) :
                    /\ sch[j].name = _suggest_target_column(sch, t[i].name).target
                    /\ sch[j].required]]

suggest_mappings(sch, t) ==
    [i \in 1..Len(t) |->
        ColumnMapping(t[i].name, _suggest_target_column(sch, t[i].name).target,
                      _detect_column_type(t[i]), TRUE, NoFunc)]

(***************************************************************************)
(* loader.py: the adapters, and DagnosticEngine.load_file.  A source is    *)
(* told apart by whether it has a name attribute, by what the name is (a   *)
(* string, None or an integer file descriptor), by whether the adapter's   *)
(* load raises on its content, and by the table it holds.                  *)
(***************************************************************************)
FileObject(has_name, name_type, name, load_raises, content) ==
    [has_name |-> has_name, name_type |-> name_type, name |-> name,
     load_raises |-> load_raises, content |-> content]

\* The registered adapters, in the order of DagnosticEngine.file_loaders.
file_loaders ==
    << [loader |-> "CSVLoader", VALID_SUFFIXES |-> {<<".", "c", "s", "v">>}],
       [loader |-> "ExcelLoader", VALID_SUFFIXES |-> {<<".", "x", "l", "s", "x">>, <<".", "x", "l", "s">>}],
       [loader |-> "JSONLoader", VALID_SUFFIXES |-> {<<".", "j", "s", "o", "n">>}],
       [loader |-> "ParquetLoader", VALID_SUFFIXES |-> {<<".", "p", "a", "r", "q", "u", "e", "t">>}] >>

\* str.split(".")[-1]
RECURSIVE LastSegment(_)
LastSegment(str) ==
    IF \E i \in 1..Len(str) : str[i] = "."
    THEN LastSegment(SubSeq(str, (CHOOSE i \in 1..Len(str) : str[i] = ".") + 1, Len(str)))
    ELSE str

\* BaseLoader.has_name
has_name(file_obj) == file_obj.has_name

\* BaseLoader.has_suffix: name.lower() raises on a name that is not a string.
has_suffix(adapter, file_obj) ==
    IF file_obj.name_type # "str"
    THEN [raises |-> TRUE, value |-> FALSE]
    ELSE [raises |-> FALSE,
          value |-> (<<".">> \o LastSegment(lower(file_obj.name)))
                        \in adapter.VALID_SUFFIXES]

\* BaseLoader.can_load
can_load(adapter, file_obj) ==
    IF ~has_name(file_obj)
    THEN [raises |-> FALSE, value |-> FALSE]
    ELSE has_suffix(adapter, file_obj)

FailedToLoadFile == Message("Failed to load file", EmptyName, {}, <<>>)
UnsupportedFileFormat == Message("Unsupported file format", EmptyName, {}, <<>>)

\* Mutant of LoadWith: the loop goes on probing the adapters after the chosen one.
LoadWith_probes_on(i, file_obj, probes) ==
    [probed |-> [k \in 1..Len(file_loaders) |-> file_loaders[k].loader],
     loaded |-> <<file_loaders[i].loader>>, raised |-> FALSE,
     table |-> IF file_obj.load_raises THEN NoData ELSE SomeData(file_obj.content),
     errors |-> IF file_obj.load_raises THEN <<FailedToLoadFile>> ELSE <<>>]

\* What the call at the adapter file_loaders[i] does once can_load answered true.
LoadWith(i, file_obj, probes) ==
    IF file_obj.load_raises
    THEN [probed |-> probes, loaded |-> <<file_loaders[i].loader>>, raised |-> FALSE,
          table |-> NoData, errors |-> <<FailedToLoadFile>>]
    ELSE [probed |-> probes, loaded |-> <<file_loaders[i].loader>>, raised |-> FALSE,
          table |-> SomeData(file_obj.content), errors |-> <<>>]

\* The loop of load_file from the adapter file_loaders[i] on; probes are the
\* adapters whose can_load was called so far.
RECURSIVE LoadLoop(_, _, _)
LoadLoop(i, file_obj, probes) ==
    IF i > Len(file_loaders)
    THEN [probed |-> probes, loaded |-> <<>>, raised |-> FALSE,
          table |-> NoData, errors |-> <<UnsupportedFileFormat>>]
    ELSE LET answer == can_load(file_loaders[i], file_obj)
             now == Append(probes, file_loaders[i].loader)
         IN IF answer.raises
            THEN [probed |-> now, loaded |-> <<>>, raised |-> TRUE,
                  table |-> NoData, errors |-> <<>>]
            ELSE IF answer.value
                 THEN LoadWith(i, file_obj, now)
                 ELSE LoadLoop(i + 1, file_obj, now)

load_file(file_obj) == LoadLoop(1, file_obj, <<>>)


(***************************************************************************)
(* The inputs.  TargetNames are the names mappings map to and schemas      *)
(* declare.  MappingPool holds the mappings the applier is run on: every   *)
(* present source to every target untyped, two missing sources, an         *)
(* excluded mapping, an included mapping with an empty target, and the     *)
(* typed and transformed mappings of a text and of an integer column.      *)
(***************************************************************************)
TargetNames == { <<"t">>, <<"u">> }

MappingPool ==
    LET a == TableColumnNames[1]
        b == TableColumnNames[2]
        t == <<"t">>
        u == <<"u">>
    IN {ColumnMapping(s, g, AUTO, TRUE, NoFunc) : s \in {a, b}, g \in TargetNames}
       \cup {ColumnMapping(<<"z", "z">>, t, AUTO, TRUE, NoFunc),
             ColumnMapping(<<"y", "y">>, u, AUTO, TRUE, NoFunc),
             ColumnMapping(a, t, AUTO, FALSE, NoFunc),
             ColumnMapping(a, EmptyName, AUTO, TRUE, NoFunc)}
       \cup {ColumnMapping(a, t, AUTO, TRUE, f) : f \in {F_OK, F_RAISES, F_UNBUILDABLE}}
       \cup {ColumnMapping(a, t, INTEGER, TRUE, F_RAISES),
             ColumnMapping(a, t, DATETIME, TRUE, NoFunc),
             ColumnMapping(b, u, DATETIME, TRUE, NoFunc),
             ColumnMapping(b, u, AUTO, TRUE, F_RAISES)}

\* The mappings the validator is run on: it reads target_column and include only.
ValidationPool ==
    {ColumnMapping(TableColumnNames[1], g, AUTO, inc, NoFunc) :
        g \in TargetNames \cup {EmptyName}, inc \in BOOLEAN}

\* The mappings the three engine calls are run on together: a plain one, a
\* missing source, a raising transform, a transform that cannot be built, and
\* a date parse asked of the integer column.
EnginePool ==
    LET a == TableColumnNames[1]
        b == TableColumnNames[2]
        t == <<"t">>
        u == <<"u">>
    IN {ColumnMapping(a, t, AUTO, TRUE, NoFunc),
        ColumnMapping(<<"z", "z">>, t, AUTO, TRUE, NoFunc),
        ColumnMapping(a, u, AUTO, TRUE, F_RAISES),
        ColumnMapping(a, u, AUTO, TRUE, F_UNBUILDABLE),
        ColumnMapping(b, u, DATETIME, TRUE, NoFunc)}

ListsOf(pool, n) == UNION {[1..k -> pool] : k \in 0..n}

NoResult == ImportResult(FALSE, <<>>)

\* The names _suggest_target_column is called on, and the names of the schema
\* columns it is matched against.
SourceNames ==
    { <<"a">>,
      <<"a", "b", "c", "e">>,
      <<"b", "c", "d", "a">>,
      <<"e", "m", "a", "i", "l">>,
      <<"E", "-", "M", "a", "i", "l", " ">>,
      <<"e", "_", "m", "a", "i", "l">>,
      <<"l", "o", "c", "a", "t", "i", "o", "n">>,
      <<"p", "a", "g", "e">>,
      <<"m", "y", "_", "c", "o", "l">>,
      <<"x", " ", "y", "!">>,
      <<" ", "Z", "i", "p", " ", " ", "C", "o", "d", "e", " ">> }

MatcherSchemaNames ==
    { <<"a", "b">>,
      <<"a">>,
      <<"A", "b", "c", "d">> }

\* The tables suggest_mappings is run on: no column at all, or four columns of
\* n rows (text, integer, text, numeric text).
ColumnD == <<StrCell("7"), StrCell("1"), StrCell("2")>>

SurveyTable(n) ==
    << [name |-> <<" ", "Z", "i", "p", " ", " ", "C", "o", "d", "e", " ">>, dtype |-> "Utf8", values |-> Pad(ColumnA, n)],
       [name |-> <<"p", "a", "g", "e">>, dtype |-> "Int64", values |-> Pad(ColumnB, n)],
       [name |-> <<"E", "-", "M", "a", "i", "l">>, dtype |-> "Utf8", values |-> Pad(ColumnC, n)],
       [name |-> <<"e", "_", "m", "a", "i", "l">>, dtype |-> "Utf8", values |-> Pad(ColumnD, n)] >>

SuggestTables == {<<>>, SurveyTable(0), SurveyTable(MaxRows)}

\* The columns of the tables that go through suggest_mappings and then, with
\* the suggestions as they are, through process_data: text, numeric text,
\* integer and datetime storage, and a name without a word character.
WorkflowColumns(n) ==
    { [name |-> <<"f", "i", "r", "s", "t", "_", "n", "a", "m", "e">>, dtype |-> "Utf8", values |-> Pad(ColumnC, n)],
      [name |-> <<"l", "a", "s", "t", "_", "n", "a", "m", "e">>, dtype |-> "Utf8", values |-> Pad(ColumnC, n)],
      [name |-> <<"z", "i", "p">>, dtype |-> "Utf8", values |-> Pad(ColumnD, n)],
      [name |-> <<"p", "a", "g", "e">>, dtype |-> "Int64", values |-> Pad(ColumnB, n)],
      [name |-> <<"w", "h", "e", "n">>, dtype |-> "Datetime",
       values |-> Pad(<<TemporalCell(DATETIME, "2023-01-01")>>, n)],
      [name |-> <<"!", "!">>, dtype |-> "Utf8", values |-> Pad(ColumnC, n)] }

WorkflowTables ==
    UNION {{<<c>> : c \in WorkflowColumns(n)}
           \cup {p \in WorkflowColumns(n) \X WorkflowColumns(n) : p[1].name # p[2].name} :
           n \in {0, MaxRows}}

\* The columns _detect_column_type is called on: one column per storage type,
\* and text columns around the 80% threshold, with an empty sample, and
\* longer than the sample.
Repeat(v, n) == [i \in 1..n |-> v]

TextOf(texts) == [i \in 1..Len(texts) |-> StrCell(texts[i])]

\* The signed and unsigned integer storage types a column can have.
IntegerStorage ==
    {"Int8", "Int16", "Int32", "Int64", "UInt8", "UInt16", "UInt32", "UInt64"}

TypedColumns ==
    {[name |-> <<"x">>, dtype |-> d, values |-> <<IntCell("1"), Null>>] : d \in IntegerStorage}
    \cup {[name |-> <<"x">>, dtype |-> d, values |-> <<FloatCell("1")>>] :
            d \in {"Float32", "Float64"}}
    \cup {[name |-> <<"x">>, dtype |-> "Boolean", values |-> <<BoolCell("true")>>],
          [name |-> <<"x">>, dtype |-> "Date", values |-> <<TemporalCell(DATE, "2023-01-01")>>],
          [name |-> <<"x">>, dtype |-> "Datetime",
           values |-> <<TemporalCell(DATETIME, "2023-01-01")>>],
          [name |-> <<"x">>, dtype |-> "Time", values |-> <<TemporalCell(TIME, "2023-01-01")>>],
          [name |-> <<"x">>, dtype |-> "Categorical", values |-> <<StrCell("abc")>>],
          [name |-> <<"x">>, dtype |-> "Decimal", values |-> <<FloatCell("1")>>]}

TextColumns ==
    {[name |-> <<"x">>, dtype |-> "Utf8", values |-> v] :
        v \in {<<>>,
               <<Null, Null>>,
               TextOf(<<"abc">>),
               TextOf(<<"7", "1", "2">>),
               TextOf(<<"7", "1", "2", "7", "abc">>),
               TextOf(<<"7", "1", "2", "7", "1", "abc">>),
               TextOf(<<"2023-01-01", "2023-01-01">>),
               TextOf(<<"7", "2023-01-01">>),
               Repeat(StrCell("abc"), SampleSize),
               Repeat(StrCell("abc"), SampleSize) \o Repeat(StrCell("7"), 81),
               Repeat(Null, SampleSize - 1) \o TextOf(<<"abc">>),
               Repeat(Null, SampleSize - 1) \o TextOf(<<"abc", "7">>)}}

DetectTables ==
    {<<c>> : c \in TypedColumns \cup TextColumns}
    \cup {<<c, [d EXCEPT !.name = <<"y">>]>> : c \in TextColumns, d \in TextColumns}

Undetected == "undetected"

\* The strings _calculate_similarity is called on.
StringPool ==
    { <<>>,
      <<"a">>,
      <<"a", "b">>,
      <<"b", "a">>,
      <<"a", "a", "b">>,
      <<"a", "b", "c">>,
      <<"x", "y", "z">>,
      <<"a", "b", "c", "d">>,
      <<"a", "b", "c", "e">>,
      <<"b", "c", "d", "a">>,
      <<"t", "e", "s", "t">>,
      <<"t", "e", "s", "t", "i", "n", "g">> }

\* The sources load_file and can_load are called on.
FileNames ==
    { <<"t", ".", "c", "s", "v">>,
      <<"T", ".", "C", "S", "V">>,
      <<"t", ".", "x", "l", "s", "x">>,
      <<"t", ".", "X", "L", "S">>,
      <<"t", ".", "j", "s", "o", "n">>,
      <<"t", ".", "p", "a", "r", "q", "u", "e", "t">>,
      <<"c", "s", "v">>,
      <<"x", "l", "s">>,
      <<"t", ".", "t", "x", "t">>,
      <<"t", ".", "c", "s", "v", ".", "b", "a", "k">>,
      <<"t", ".", "t", "a", "r", ".", "j", "s", "o", "n">>,
      <<".", "c", "s", "v">>,
      <<>>,
      <<"t", ".">>,
      <<"t", ".", "c", "s", "v", "x">> }

FileObjects ==
    {FileObject(TRUE, "str", name, load_raises, TableOfRows(0)) :
        name \in FileNames, load_raises \in BOOLEAN}
    \cup {FileObject(TRUE, name_type, EmptyName, load_raises, TableOfRows(0)) :
            name_type \in {"None", "int"}, load_raises \in BOOLEAN}
    \cup {FileObject(FALSE, "absent", EmptyName, load_raises, TableOfRows(0)) :
            load_raises \in BOOLEAN}

NoFile == FileObject(FALSE, "absent", EmptyName, FALSE, <<>>)
NoSuggestion == [target |-> EmptyName, by |-> "none"]
NoAnswer == [raises |-> FALSE, value |-> FALSE]
NoColumn == SchemaColumn(EmptyName, AUTO, FALSE, "")
NoStrings == <<EmptyName, EmptyName>>
NoScore == <<0, 0>>
NoLoad == [probed |-> <<>>, loaded |-> <<>>, raised |-> FALSE,
           table |-> NoData, errors |-> <<>>]

(***************************************************************************)
(* The state machine.  schema is the engine's SchemaDefinition; df and     *)
(* mappings are the caller's table and mapping list; column_name is the   *)
(* name handed to _suggest_target_column and source the object handed to   *)
(* the loaders.  op names the last call; raised tells whether it ended in  *)
(* an exception, and the other variables hold what it returned, built and  *)
(* invoked: validation_errors, result, expressions and applier_calls for   *)
(* the engine, suggested and suggestion for the mapper, and for the        *)
(* loaders asked (the adapter whose can_load was called directly),         *)
(* can_load_answer and load_call.  strings is the pair of strings handed   *)
(* to _calculate_similarity and similarity the score it returned; detected *)
(* holds, per column of df, the DataType _detect_column_type returned for  *)
(* it; added is the column of the most recent add_column call.             *)
(***************************************************************************)
InitCommon ==
    /\ schema = <<>>
    /\ op = "init"
    /\ validation_errors = <<>>
    /\ result = NoResult
    /\ expressions = <<>>
    /\ applier_calls = 0
    /\ raised = FALSE
    /\ suggested = <<>>
    /\ suggestion = NoSuggestion
    /\ asked = 0
    /\ can_load_answer = NoAnswer
    /\ load_call = NoLoad
    /\ added = NoColumn
    /\ similarity = NoScore

Init ==
    /\ InitCommon
    /\ df \in Tables
    /\ mappings \in ListsOf(MappingPool, MaxMappings)
    /\ column_name = EmptyName
    /\ source = NoFile
    /\ strings = NoStrings
    /\ detected = <<>>

InitValidate ==
    /\ InitCommon
    /\ df = TableOfRows(0)
    /\ mappings \in ListsOf(ValidationPool, MaxValidated)
    /\ column_name = EmptyName
    /\ source = NoFile
    /\ strings = NoStrings
    /\ detected = <<>>

InitEngine ==
    /\ InitCommon
    /\ df \in Tables
    /\ mappings \in ListsOf(EnginePool, MaxMappings)
    /\ column_name = EmptyName
    /\ source = NoFile
    /\ strings = NoStrings
    /\ detected = <<>>

InitSuggest ==
    /\ InitCommon
    /\ df \in SuggestTables
    /\ mappings = <<>>
    /\ column_name \in SourceNames
    /\ source = NoFile
    /\ strings = NoStrings
    /\ detected = <<>>

InitWorkflow ==
    /\ InitCommon
    /\ df \in WorkflowTables
    /\ mappings = <<>>
    /\ column_name = EmptyName
    /\ source = NoFile
    /\ strings = NoStrings
    /\ detected = <<>>

InitSchema ==
    /\ InitCommon
    /\ df = TableOfRows(0)
    /\ mappings = <<>>
    /\ column_name = EmptyName
    /\ source = NoFile
    /\ strings = NoStrings
    /\ detected = <<>>

InitSimilarity ==
    /\ InitCommon
    /\ df = TableOfRows(0)
    /\ mappings = <<>>
    /\ column_name = EmptyName
    /\ source = NoFile
    /\ strings \in StringPool \X StringPool
    /\ detected = <<>>

InitDetect ==
    /\ InitCommon
    /\ df \in DetectTables
    /\ mappings = <<>>
    /\ column_name = EmptyName
    /\ source = NoFile
    /\ strings = NoStrings
    /\ detected = [i \in 1..Len(df) |-> Undetected]

InitLoad ==
    /\ InitCommon
    /\ df = TableOfRows(0)
    /\ mappings = <<>>
    /\ column_name = EmptyName
    /\ source \in FileObjects
    /\ strings = NoStrings
    /\ detected = <<>>

\* SchemaDefinition.add_column.  The history variable added is left to the
\* callers below: only AddRecordedColumn records the call in it.
AddColumn(name, data_type, required, description) ==
    /\ HasColumn(schema, name) \/ Len(schema) < MaxSchemaCols
    /\ schema' = add_column(schema, name, data_type, required, description)
    /\ op' = "add_column"
    /\ validation_errors' = <<>>
    /\ result' = NoResult
    /\ expressions' = <<>>
    /\ applier_calls' = 0
    /\ raised' = FALSE
    /\ suggested' = <<>>
    /\ suggestion' = NoSuggestion
    /\ UNCHANGED <<df, mappings, column_name, source, asked, can_load_answer, load_call,
                   strings, similarity, detected>>

\* DagnosticEngine.validate_mappings
ValidateMappings ==
    /\ validation_errors' = validate_mappings(schema, mappings)
    /\ op' = "validate_mappings"
    /\ result' = NoResult
    /\ expressions' = <<>>
    /\ applier_calls' = 0
    /\ raised' = FALSE
    /\ suggested' = <<>>
    /\ suggestion' = NoSuggestion
    /\ UNCHANGED <<schema, df, mappings, column_name, source, asked, can_load_answer, load_call,
                   added, strings, similarity, detected>>

\* DataProcessor.process_dataframe, called directly
ProcessDataframe ==
    /\ LET call == process_dataframe(df, mappings)
       IN /\ result' = call.result
          /\ expressions' = call.expressions
          /\ raised' = call.raised
    /\ op' = "process_dataframe"
    /\ validation_errors' = <<>>
    /\ applier_calls' = 1
    /\ suggested' = <<>>
    /\ suggestion' = NoSuggestion
    /\ UNCHANGED <<schema, df, mappings, column_name, source, asked, can_load_answer, load_call,
                   added, strings, similarity, detected>>

\* DagnosticEngine.process_data
ProcessData ==
    /\ LET call == process_data(schema, df, mappings)
       IN /\ result' = call.result
          /\ expressions' = call.expressions
          /\ validation_errors' = call.validation
          /\ applier_calls' = call.calls
          /\ raised' = call.raised
    /\ op' = "process_data"
    /\ suggested' = <<>>
    /\ suggestion' = NoSuggestion
    /\ UNCHANGED <<schema, df, mappings, column_name, source, asked, can_load_answer, load_call,
                   added, strings, similarity, detected>>

\* DagnosticEngine.suggest_mappings, which hands the table to
\* ColumnMapper.suggest_mappings; neither has a try block, and no step of the
\* mapper raises on a table.
SuggestMappings ==
    /\ suggested' = suggest_mappings(schema, df)
    /\ op' = "suggest_mappings"
    /\ raised' = FALSE
    /\ suggestion' = NoSuggestion
    /\ validation_errors' = <<>>
    /\ result' = NoResult
    /\ expressions' = <<>>
    /\ applier_calls' = 0
    /\ UNCHANGED <<schema, df, mappings, column_name, source, asked, can_load_answer, load_call,
                   added, strings, similarity, detected>>

\* engine.process_data(df, mappings) with mappings the list that
\* engine.suggest_mappings(df) has just returned, unedited.
ProcessSuggestions ==
    /\ op = "suggest_mappings"
    /\ mappings' = suggested
    /\ LET call == process_data(schema, df, suggested)
       IN /\ result' = call.result
          /\ expressions' = call.expressions
          /\ validation_errors' = call.validation
          /\ applier_calls' = call.calls
          /\ raised' = call.raised
    /\ op' = "process_data"
    /\ UNCHANGED <<schema, df, suggested, suggestion, column_name, source, asked,
                   can_load_answer, load_call, added, strings, similarity, detected>>

\* ColumnMapper._suggest_target_column
SuggestTargetColumn ==
    /\ suggestion' = _suggest_target_column(schema, column_name)
    /\ op' = "_suggest_target_column"
    /\ raised' = FALSE
    /\ suggested' = <<>>
    /\ UNCHANGED <<schema, df, mappings, column_name, validation_errors, result,
                   expressions, applier_calls, source, asked, can_load_answer, load_call,
                   added, strings, similarity, detected>>

\* ColumnMapper._detect_column_type on df.select of the i-th column.  The
\* probes of a text column run inside try blocks, and nothing else in the
\* function raises.
DetectColumnType(i) ==
    /\ detected' = [detected EXCEPT ![i] = _detect_column_type(df[i])]
    /\ op' = "_detect_column_type"
    /\ raised' = FALSE
    /\ UNCHANGED <<schema, df, mappings, column_name, validation_errors, result,
                   expressions, applier_calls, suggested, suggestion, source,
                   asked, can_load_answer, load_call, added, strings, similarity>>

\* ColumnMapper._calculate_similarity
CalculateSimilarity ==
    /\ similarity' = _calculate_similarity(strings[1], strings[2])
    /\ op' = "_calculate_similarity"
    /\ raised' = FALSE
    /\ UNCHANGED <<schema, df, mappings, column_name, validation_errors, result,
                   expressions, applier_calls, suggested, suggestion, source,
                   asked, can_load_answer, load_call, added, strings, detected>>

\* BaseLoader.can_load of the adapter file_loaders[i]
CanLoad(i) ==
    /\ can_load_answer' = can_load(file_loaders[i], source)
    /\ raised' = can_load(file_loaders[i], source).raises
    /\ asked' = i
    /\ op' = "can_load"
    /\ load_call' = NoLoad
    /\ UNCHANGED <<schema, df, mappings, column_name, validation_errors, result,
                   expressions, applier_calls, suggested, suggestion, source,
                   added, strings, similarity, detected>>

\* DagnosticEngine.load_file
LoadFile ==
    /\ load_call' = load_file(source)
    /\ raised' = load_file(source).raised
    /\ op' = "load_file"
    /\ asked' = 0
    /\ can_load_answer' = NoAnswer
    /\ UNCHANGED <<schema, df, mappings, column_name, validation_errors, result,
                   expressions, applier_calls, suggested, suggestion, source,
                   added, strings, similarity, detected>>

AddAnyColumn ==
    \E name \in TargetNames, required \in BOOLEAN :
        AddColumn(name, AUTO, required, "") /\ UNCHANGED added

AddMatcherColumn ==
    \E name \in MatcherSchemaNames, required \in BOOLEAN :
        AddColumn(name, AUTO, required, "") /\ UNCHANGED added

AddRecordedColumn ==
    \E name \in TargetNames \cup {EmptyName}, data_type \in {AUTO, INTEGER},
       required \in BOOLEAN, description \in {"", "text"} :
        /\ AddColumn(name, data_type, required, description)
        /\ added' = SchemaColumn(name, data_type, required, description)

CanLoadAny == \E i \in 1..Len(file_loaders) : CanLoad(i)

Next == AddAnyColumn \/ ValidateMappings \/ ProcessDataframe \/ ProcessData

Spec == Init /\ [][Next]_vars

NextValidate == AddAnyColumn \/ ValidateMappings

SpecValidate == InitValidate /\ [][NextValidate]_vars

NextSuggest == AddMatcherColumn \/ SuggestTargetColumn \/ SuggestMappings

SpecSuggest == InitSuggest /\ [][NextSuggest]_vars

NextEngine == AddAnyColumn \/ ValidateMappings \/ ProcessData \/ SuggestMappings

SpecEngine == InitEngine /\ [][NextEngine]_vars

NextWorkflow == SuggestMappings \/ ProcessSuggestions

SpecWorkflow == InitWorkflow /\ [][NextWorkflow]_vars

NextSchema == AddRecordedColumn

SpecSchema == InitSchema /\ [][NextSchema]_vars

NextSimilarity == CalculateSimilarity

SpecSimilarity == InitSimilarity /\ [][NextSimilarity]_vars

DetectAnyColumnType == \E i \in 1..Len(df) : DetectColumnType(i)

NextDetect == DetectAnyColumnType

SpecDetect == InitDetect /\ [][NextDetect]_vars

NextLoad == CanLoadAny \/ LoadFile

SpecLoad == InitLoad /\ [][NextLoad]_vars

(***************************************************************************)
(* Properties.  The statements below speak of the mapping list and the     *)
(* table directly, not through the operators that model the code.          *)
(***************************************************************************)
Applied == op \in {"process_dataframe", "process_data"} /\ applier_calls = 1

Active(m) == m.include /\ m.target_column # EmptyName
Present(m) == m.source_column \in ColumnSet(df)
ActiveMappings == SelectSeq(mappings, Active)
MissingMappings == SelectSeq(mappings, LAMBDA m : Active(m) /\ ~Present(m))
BuiltMappings == SelectSeq(mappings, LAMBDA m : Active(m) /\ Present(m))
TargetsOf(ms) == [i \in 1..Len(ms) |-> ms[i].target_column]
ErrorsOfKind(errors, kind) == SelectSeq(errors, LAMBDA e : e.kind = kind)
RequiredOf(sch) == {sch[i].name : i \in {j \in 1..Len(sch) : sch[j].required}}
CountIncluded(name) ==
    Cardinality({i \in 1..Len(mappings) :
                    mappings[i].include /\ mappings[i].target_column = name})

\* C1: every ImportResult returned by process_data or process_dataframe has
\* success = TRUE only with data present and errors empty, and success = FALSE
\* only with data absent.
C1_ImportResultInvariant ==
    op \in {"process_dataframe", "process_data"} =>
        /\ result.success => (result.data.present /\ result.errors = <<>>)
        /\ ~result.success => ~result.data.present

\* C2: process_data validates first; when validation yields an error the result
\* is a failure without data whose errors are exactly the validation errors and
\* process_dataframe is not invoked; it is invoked only on an empty validation.
C2_ValidationShortCircuits ==
    op = "process_data" =>
        /\ validation_errors = validate_mappings(schema, mappings)
        /\ validation_errors # <<>> =>
              /\ ~result.success
              /\ result.data = NoData
              /\ result.errors = validation_errors
              /\ applier_calls = 0
        /\ applier_calls > 0 => validation_errors = <<>>

\* C2 witness: validation failed on a call the applier alone would have served.
C2_Witness ==
    /\ op = "process_data"
    /\ validation_errors # <<>>
    /\ applier_calls = 0
    /\ process_dataframe(df, mappings).result.success

\* C3: validate_mappings reports 'Missing required columns' exactly when some
\* required column of the schema is the target of no included mapping, and the
\* error names exactly those columns.
C3_MissingRequiredReported ==
    op = "validate_mappings" =>
        LET missing == {c \in RequiredOf(schema) :
                          ~\E i \in 1..Len(mappings) :
                              mappings[i].include /\ mappings[i].target_column = c}
            reported == ErrorsOfKind(validation_errors, "Missing required columns")
        IN /\ (reported # <<>>) <=> (missing # {})
           /\ Len(reported) <= 1
           /\ \A i \in 1..Len(reported) : reported[i].names = missing

\* C3 witness: two required columns, one mapped by an included mapping, the
\* other only by an excluded one; the error names the second alone.
C3_Witness ==
    /\ op = "validate_mappings"
    /\ Cardinality(RequiredOf(schema)) = 2
    /\ \E e \in Range(validation_errors) :
          /\ e.kind = "Missing required columns"
          /\ Cardinality(e.names) = 1
          /\ \E i \in 1..Len(mappings) :
                ~mappings[i].include /\ mappings[i].target_column \in e.names

\* C4 as stated: one 'Duplicate target columns' error lists exactly the
\* target_column values that occur more than once among the mappings with
\* include = TRUE, and none is reported when there is no such value.
C4_DuplicatesAmongIncluded ==
    op = "validate_mappings" =>
        LET dups == {g \in Range(TargetsOf(mappings)) : CountIncluded(g) > 1}
            reported == ErrorsOfKind(validation_errors, "Duplicate target columns")
        IN /\ dups # {} => (Len(reported) = 1 /\ Range(reported[1].list) = dups)
           /\ dups = {} => reported = <<>>

\* C4 amended: one 'Duplicate target columns' error lists, each once, exactly
\* the non-empty target_column values that occur more than once among the
\* mappings with include = TRUE; none is reported when there is no such value.
C4_DuplicatesAmongCounted ==
    op = "validate_mappings" =>
        LET dups == {g \in Range(TargetsOf(mappings)) :
                        g # EmptyName /\ CountIncluded(g) > 1}
            reported == ErrorsOfKind(validation_errors, "Duplicate target columns")
        IN /\ dups # {} =>
                /\ Len(reported) = 1
                /\ Range(reported[1].list) = dups
                /\ Len(reported[1].list) = Cardinality(dups)
           /\ dups = {} => reported = <<>>

\* C4 witness: two targets are each mapped twice and both are listed, while the
\* schema is not empty.
C4_Witness ==
    /\ op = "validate_mappings"
    /\ schema # <<>>
    /\ \E e \in Range(validation_errors) :
          e.kind = "Duplicate target columns" /\ Len(e.list) = 2

\* C5: with no mapping that is included and has a non-empty target,
\* process_dataframe returns a failure without data whose errors are the single
\* entry "No column mappings provided"; so does process_data when the schema
\* has no required column.
C5_NoMappingsProvided ==
    (/\ ActiveMappings = <<>>
     /\ \/ op = "process_dataframe"
        \/ op = "process_data" /\ RequiredOf(schema) = {})
    => /\ ~result.success
       /\ result.data = NoData
       /\ result.errors = <<NoMappingsProvided>>

\* C5 witness: process_data on a list of two mappings, neither active (one
\* excluded, one with an empty target), under a schema of optional columns.
C5_Witness ==
    /\ op = "process_data"
    /\ schema # <<>>
    /\ Len(mappings) = 2
    /\ \E i \in 1..2 : ~mappings[i].include
    /\ \E i \in 1..2 : mappings[i].include /\ mappings[i].target_column = EmptyName
    /\ result.errors = <<NoMappingsProvided>>

\* C6: an active mapping whose source column is missing is recorded as "Source
\* column '<name>' not found" and skipped without ending the loop: the errors
\* hold one such entry per missing source in list order, and every active
\* mapping whose source exists, before or after it, has its expression built
\* under its target name, which is a column of the data the call returns.
C6_MissingSourceSkipped ==
    (Applied /\ ActiveMappings # <<>>) =>
        LET notfound == ErrorsOfKind(result.errors, "Source column not found")
        IN /\ Len(notfound) = Len(MissingMappings)
           /\ \A i \in 1..Len(notfound) :
                 notfound[i] = SourceNotFound(MissingMappings[i].source_column)
           /\ Len(expressions) = Len(BuiltMappings)
           /\ \A i \in 1..Len(expressions) :
                 /\ expressions[i].root = BuiltMappings[i].source_column
                 /\ expressions[i].alias = BuiltMappings[i].target_column
           /\ result.data.present =>
                 Columns(result.data.table) = TargetsOf(BuiltMappings)

\* C6 witness: the first active mapping names a missing source, the one after
\* it an existing one, and the data holds the second's column.
C6_Witness ==
    /\ op = "process_dataframe"
    /\ Len(mappings) = 2
    /\ Active(mappings[1]) /\ ~Present(mappings[1])
    /\ Active(mappings[2]) /\ Present(mappings[2])
    /\ result.data.present
    /\ Columns(result.data.table) = <<mappings[2].target_column>>
    /\ result.errors = <<SourceNotFound(mappings[1].source_column)>>

\* C7 as stated: when the active set is not empty and every active source is
\* missing, process_dataframe fails without data and its errors are the
\* "Source column '<name>' not found" entries, one per active mapping in order.
C7_OnlyNotFoundErrors ==
    (op = "process_dataframe" /\ ActiveMappings # <<>> /\ BuiltMappings = <<>>) =>
        /\ ~result.success
        /\ result.data = NoData
        /\ result.errors =
             [i \in 1..Len(ActiveMappings) |->
                 SourceNotFound(ActiveMappings[i].source_column)]

\* C7 amended: in that case process_dataframe fails without data and its errors
\* are the "Source column '<name>' not found" entries, one per active mapping
\* in list order, followed by the entry "No valid mappings to process".
C7_NotFoundThenNoValid ==
    (op = "process_dataframe" /\ ActiveMappings # <<>> /\ BuiltMappings = <<>>) =>
        /\ ~result.success
        /\ result.data = NoData
        /\ result.errors =
             [i \in 1..Len(ActiveMappings) |->
                 SourceNotFound(ActiveMappings[i].source_column)]
             \o <<NoValidMappings>>

\* C7 witness: two active mappings with two different missing sources.
C7_Witness ==
    /\ op = "process_dataframe"
    /\ Len(ActiveMappings) = 2
    /\ BuiltMappings = <<>>
    /\ ActiveMappings[1].source_column # ActiveMappings[2].source_column
    /\ Len(result.errors) = 3

\* C8: whenever process_dataframe succeeds, the columns of result.data are, in
\* order, the target columns of the active mappings whose source exists.
C8_OutputColumns ==
    (Applied /\ result.success) =>
        /\ result.data.present
        /\ Columns(result.data.table) = TargetsOf(BuiltMappings)

\* C8 witness: a success whose list holds an excluded mapping of a source that
\* an active mapping does not use; the output is the active target alone.
C8_Witness ==
    /\ op = "process_dataframe"
    /\ result.success
    /\ Len(mappings) = 2
    /\ ~mappings[1].include
    /\ mappings[1].source_column # mappings[2].source_column
    /\ mappings[1].target_column # mappings[2].target_column
    /\ Columns(result.data.table) = <<mappings[2].target_column>>

AllAutoUntransformed ==
    \A i \in 1..Len(mappings) :
        mappings[i].data_type = AUTO /\ mappings[i].transformation_func = NoFunc
IncludedSourcesExist ==
    \A i \in 1..Len(mappings) : mappings[i].include => Present(mappings[i])
HoldsCopy(m) ==
    \E j \in 1..Len(result.data.table) :
        /\ result.data.table[j].name = m.target_column
        /\ result.data.table[j].values = GetColumn(df, m.source_column).values

\* C9 as stated: with every mapping AUTO and untransformed and every included
\* source present, the output of process_dataframe holds for each included
\* mapping a column named target_column with the source's values, row by row,
\* and no other column.
C9_RoundTripIncluded ==
    (op = "process_dataframe" /\ result.success
       /\ AllAutoUntransformed /\ IncludedSourcesExist) =>
        /\ \A i \in 1..Len(mappings) : mappings[i].include => HoldsCopy(mappings[i])
        /\ \A j \in 1..Len(result.data.table) :
              \E i \in 1..Len(mappings) :
                  /\ mappings[i].include
                  /\ mappings[i].target_column = result.data.table[j].name

\* C9 amended: under the same conditions, when process_dataframe succeeds its
\* output holds for each included mapping with a non-empty target_column a
\* column named target_column with the source's values, row by row, and no
\* other column.
C9_RoundTripActive ==
    (op = "process_dataframe" /\ result.success
       /\ AllAutoUntransformed /\ IncludedSourcesExist) =>
        /\ \A i \in 1..Len(mappings) : Active(mappings[i]) => HoldsCopy(mappings[i])
        /\ \A j \in 1..Len(result.data.table) :
              \E i \in 1..Len(mappings) :
                  /\ Active(mappings[i])
                  /\ mappings[i].target_column = result.data.table[j].name
        /\ Len(result.data.table) = Len(ActiveMappings)

\* C9 witness: two columns of different content are both copied, on a table
\* that has rows and a third column, which is dropped.
C9_Witness ==
    /\ op = "process_dataframe"
    /\ result.success
    /\ AllAutoUntransformed /\ IncludedSourcesExist
    /\ Height(df) > 0
    /\ Len(result.data.table) = 2
    /\ result.data.table[1].values # result.data.table[2].values
    /\ Len(df) = 3

\* Whether the transformation of mapping m is called on a value: map_elements
\* calls it on every non-null value of the coerced column.
TransformCalled(m) ==
    LET values == GetColumn(df, m.source_column).values
    IN \E r \in 1..Len(values) : CastCell(m.data_type, values[r]) # Null

\* C10: when the transformation_func of a mapping raises on the column's
\* values, process_dataframe records a warning naming the source column, the
\* result is still a success and no entry is added to errors.
C10_FailingTransformIsWarning ==
    \A i \in 1..Len(mappings) :
        (/\ op = "process_dataframe"
         /\ Active(mappings[i]) /\ Present(mappings[i])
         /\ mappings[i].transformation_func = F_RAISES
         /\ TransformCalled(mappings[i]))
        => /\ result.success
           /\ TransformationFailedFor(mappings[i].source_column)
                 \in Range(result.warnings)
           /\ ErrorsOfKind(result.errors, "Column transformation failed") = <<>>

\* C11: when coercing a source column to a non-AUTO data_type fails internally
\* (a DATETIME, DATE or TIME parse asked of a column that is not text), the
\* failure is swallowed: the column is emitted uncoerced under its target name,
\* nothing is added to errors or warnings and the result stays a success.
C11_CoercionFailureSwallowed ==
    (/\ op = "process_dataframe"
     /\ Len(mappings) = 1
     /\ Active(mappings[1]) /\ Present(mappings[1])
     /\ mappings[1].transformation_func = NoFunc
     /\ mappings[1].data_type \in {DATETIME, DATE, TIME}
     /\ GetColumn(df, mappings[1].source_column).dtype # "Utf8")
    => /\ result.success
       /\ result.errors = <<>>
       /\ result.warnings = <<>>
       /\ result.data.present
       /\ Columns(result.data.table) = <<mappings[1].target_column>>
       /\ result.data.table[1].values =
             GetColumn(df, mappings[1].source_column).values

\* C12: process_data, validate_mappings and suggest_mappings never propagate an
\* exception to the caller, whatever the table and the mapping list (missing
\* source columns, raising transforms and failing projections included);
\* process_data always returns an ImportResult, and a failure shows in its
\* success and errors fields.
C12_NoExceptionPropagates ==
    /\ op \in {"process_data", "validate_mappings", "suggest_mappings"} => ~raised
    /\ op = "process_data" =>
          /\ DOMAIN result =
                {"success", "data", "mappings", "errors", "warnings", "metadata"}
          /\ result.success \/ result.errors # <<>>

C12_Witness ==
    /\ op = "process_data"
    /\ ~raised
    /\ \E i \in 1..Len(mappings) :
          /\ Active(mappings[i]) /\ Present(mappings[i])
          /\ mappings[i].transformation_func = F_RAISES
          /\ TransformCalled(mappings[i])
    /\ MissingMappings # <<>>
    /\ ~result.success
    /\ ErrorsOfKind(result.errors, "Column transformation failed") # <<>>

(***************************************************************************)
(* The loaders.                                                            *)
(***************************************************************************)
RegistrationOrder == <<"CSVLoader", "ExcelLoader", "JSONLoader", "ParquetLoader">>

AnswersTrue(i) ==
    /\ ~can_load(file_loaders[i], source).raises
    /\ can_load(file_loaders[i], source).value

AnswersFalse(i) ==
    /\ ~can_load(file_loaders[i], source).raises
    /\ ~can_load(file_loaders[i], source).value

\* C13: load_file probes the adapters' can_load in the registration order CSV,
\* Excel, JSON, Parquet and calls load on the first adapter that answers true
\* and on no other: at most one load per call, no adapter after the chosen one
\* is probed, and no later adapter is tried when the chosen adapter's load
\* raises.
C13_FirstAcceptingAdapterLoads ==
    op = "load_file" =>
        /\ [i \in 1..Len(file_loaders) |-> file_loaders[i].loader] = RegistrationOrder
        /\ Len(load_call.probed) <= Len(RegistrationOrder)
        /\ load_call.probed = SubSeq(RegistrationOrder, 1, Len(load_call.probed))
        /\ \A i \in 1..(Len(load_call.probed) - 1) : AnswersFalse(i)
        /\ Len(load_call.loaded) <= 1
        /\ load_call.loaded # <<>> =>
              /\ load_call.loaded[1] = load_call.probed[Len(load_call.probed)]
              /\ AnswersTrue(Len(load_call.probed))
        /\ \A i \in 1..Len(RegistrationOrder) :
              (AnswersTrue(i) /\ \A j \in 1..(i - 1) : AnswersFalse(j))
                 => load_call.loaded = <<RegistrationOrder[i]>>

C13_Witness ==
    /\ op = "load_file"
    /\ source.load_raises
    /\ AnswersTrue(2)
    /\ load_call.probed = <<"CSVLoader", "ExcelLoader">>
    /\ load_call.loaded = <<"ExcelLoader">>
    /\ ~load_call.table.present

\* C14: load_file never raises: for every source it returns either a table
\* with an empty errors list or no table with exactly one error, which is
\* "Failed to load file" when the chosen adapter's load raised and
\* "Unsupported file format" when no adapter's can_load answered true.
C14_LoadFileNeverRaises ==
    op = "load_file" =>
        /\ ~raised
        /\ \/ load_call.table.present /\ load_call.errors = <<>>
           \/ /\ ~load_call.table.present
              /\ load_call.errors = <<FailedToLoadFile>>
              /\ load_call.loaded # <<>>
           \/ /\ ~load_call.table.present
              /\ load_call.errors = <<UnsupportedFileFormat>>
              /\ \A i \in 1..Len(file_loaders) : ~AnswersTrue(i)

\* C15: every adapter's can_load returns a boolean and never raises: a source
\* with no name attribute, a source whose name is not a string and a source
\* with an unrecognised name all yield false.
C15_CanLoadNeverRaises ==
    op = "can_load" =>
        /\ ~raised
        /\ can_load_answer.value \in BOOLEAN
        /\ (~source.has_name \/ source.name_type # "str") => ~can_load_answer.value

EndsWith(str, suffix) ==
    /\ Len(suffix) <= Len(str)
    /\ SubSeq(str, Len(str) - Len(suffix) + 1, Len(str)) = suffix

DottedSuffixes ==
    << {<<".", "c", "s", "v">>},
       {<<".", "x", "l", "s", "x">>, <<".", "x", "l", "s">>},
       {<<".", "j", "s", "o", "n">>},
       {<<".", "p", "a", "r", "q", "u", "e", "t">>} >>

\* C16: an adapter's can_load is true if and only if the source has a name
\* that ends, case-insensitively, with one of the adapter's suffixes, leading
\* dot included; a name without such a dotted suffix is rejected by every
\* adapter.
C16_AcceptsIffDottedSuffix ==
    op = "can_load" =>
        (can_load_answer.value
            <=> /\ source.has_name
                /\ source.name_type = "str"
                /\ \E suffix \in DottedSuffixes[asked] :
                      EndsWith(lower(source.name), suffix))

(***************************************************************************)
(* The mapper.                                                             *)
(***************************************************************************)
\* C17: suggest_mappings returns exactly one ColumnMapping per table column, in
\* table column order, with the column's name as source_column, the value of
\* _suggest_target_column for that name as target_column, the inferred type of
\* the column as data_type, include true and required false whatever the
\* schema says; a table without columns yields the empty list.
C17_OneMappingPerColumn ==
    op = "suggest_mappings" =>
        /\ Len(suggested) = Len(df)
        /\ \A i \in 1..Len(df) :
              /\ suggested[i].source_column = df[i].name
              /\ suggested[i].target_column =
                    _suggest_target_column(schema, df[i].name).target
              /\ suggested[i].data_type = _detect_column_type(df[i])
              /\ suggested[i].include
              /\ ~suggested[i].required
        /\ df = <<>> => suggested = <<>>

C17_Witness ==
    /\ op = "suggest_mappings"
    /\ Len(suggested) = 4
    /\ \E i \in 1..Len(suggested), j \in 1..Len(schema) :
          /\ schema[j].required
          /\ suggested[i].target_column = schema[j].name
    /\ \E i, k \in 1..Len(suggested) :
          suggested[i].data_type # suggested[k].data_type

Above06(score) == score[1] * 5 > 3 * score[2]

NormalisedSource == strip(lower(column_name))

ScoreOf(j) == _calculate_similarity(NormalisedSource, lower(schema[j].name))

SchemaHits == {j \in 1..Len(schema) : Above06(ScoreOf(j))}

First(hits) == CHOOSE i \in hits : \A k \in hits : i <= k

\* C18: _suggest_target_column returns the first schema column, in definition
\* order, whose similarity with the lower-cased, trimmed source name is
\* strictly greater than 0.6, even when a later column scores higher; a score
\* of exactly 0.6 is no match, and the synonym table is consulted only when no
\* schema column exceeds 0.6.
C18_FirstSchemaMatchWins ==
    op = "_suggest_target_column" =>
        IF SchemaHits # {}
        THEN suggestion = [target |-> schema[First(SchemaHits)].name, by |-> "schema"]
        ELSE suggestion.by \in {"pattern", "clean"}

C18_Witness ==
    /\ op = "_suggest_target_column"
    /\ Len(schema) = 2
    /\ ScoreOf(1) = <<4, 5>>
    /\ ScoreOf(2) = <<1, 1>>
    /\ suggestion.target = schema[1].name

GroupKeys ==
    << <<"n", "a", "m", "e">>,
       <<"e", "m", "a", "i", "l">>,
       <<"p", "h", "o", "n", "e">>,
       <<"a", "g", "e">>,
       <<"c", "i", "t", "y">>,
       <<"c", "o", "u", "n", "t", "r", "y">>,
       <<"a", "d", "d", "r", "e", "s", "s">>,
       <<"d", "a", "t", "e">>,
       <<"i", "d">> >>

GroupHits ==
    {g \in 1..Len(common_patterns) :
        \E k \in 1..Len(common_patterns[g].patterns) :
            Contains(common_patterns[g].patterns[k], NormalisedSource)}

\* C19: when no schema column matches, _suggest_target_column scans the synonym
\* groups in the order name, email, phone, age, city, country, address, date,
\* id and returns the key of the first group one of whose substrings the
\* normalised source name contains; with an empty schema "e_mail" yields
\* "email", and "location", which two groups hold, yields the earlier key.
C19_FirstSynonymGroupWins ==
    /\ [g \in 1..Len(common_patterns) |-> common_patterns[g].target] = GroupKeys
    /\ (op = "_suggest_target_column" /\ SchemaHits = {}) =>
          /\ IF GroupHits # {}
             THEN suggestion = [target |-> GroupKeys[First(GroupHits)], by |-> "pattern"]
             ELSE suggestion.by = "clean"
          /\ column_name = <<"e", "_", "m", "a", "i", "l">> => suggestion.target = <<"e", "m", "a", "i", "l">>
          /\ column_name = <<"l", "o", "c", "a", "t", "i", "o", "n">> => suggestion.target = <<"c", "i", "t", "y">>

C19_Witness ==
    /\ op = "_suggest_target_column"
    /\ schema = <<>>
    /\ column_name = <<"l", "o", "c", "a", "t", "i", "o", "n">>
    /\ GroupHits = {5, 7}
    /\ suggestion.target = <<"c", "i", "t", "y">>

Keep(str, chars) == SelectSeq(str, LAMBDA c : c \in chars)

AlphanumericChars == Range(UpperChars) \cup Range(LowerChars) \cup DigitChars

\* C20 as stated: when neither a schema column nor a synonym group matches,
\* the suggested target is the source name with every character that is not
\* alphanumeric or whitespace removed (underscores included), each run of
\* internal whitespace turned into one underscore, and lower-cased.
C20_CleanedNameDropsUnderscores ==
    (op = "_suggest_target_column" /\ SchemaHits = {} /\ GroupHits = {}) =>
        suggestion.target =
            CollapseWhitespace(strip(Keep(lower(column_name),
                                          AlphanumericChars \cup WhitespaceChars)))

\* C20, amended: when neither a schema column nor a synonym group matches, the
\* suggested target is the lower-cased source name with every character
\* removed that is neither a word character (alphanumeric or underscore) nor
\* whitespace, then trimmed of leading and trailing whitespace, with each
\* remaining run of whitespace turned into one underscore; it contains only
\* lower-case alphanumerics and underscores, which stand for whitespace runs
\* or for underscores of the source name.
C20_CleanedNameKeepsUnderscores ==
    (op = "_suggest_target_column" /\ SchemaHits = {} /\ GroupHits = {}) =>
        /\ suggestion.target =
              CollapseWhitespace(strip(Keep(lower(column_name),
                                            AlphanumericChars \cup {"_"}
                                                \cup WhitespaceChars)))
        /\ \A i \in 1..Len(suggestion.target) :
              suggestion.target[i] \in Range(LowerChars) \cup DigitChars \cup {"_"}

C20_Witness ==
    /\ op = "_suggest_target_column"
    /\ SchemaHits = {}
    /\ GroupHits = {}
    /\ column_name = <<"m", "y", "_", "c", "o", "l">>
    /\ suggestion.target = <<"m", "y", "_", "c", "o", "l">>

(***************************************************************************)
(* The schema.                                                             *)
(***************************************************************************)
NameSet(sch) == {sch[i].name : i \in 1..Len(sch)}

OneEntryPerName ==
    \A i, j \in 1..Len(schema) : schema[i].name = schema[j].name => i = j

RequiredAndOptionalPartition ==
    /\ Range(get_required_columns(schema)) \cap Range(get_optional_columns(schema)) = {}
    /\ Range(get_required_columns(schema)) \cup Range(get_optional_columns(schema))
          = NameSet(schema)
    /\ Len(get_required_columns(schema)) + Len(get_optional_columns(schema))
          = Cardinality(NameSet(schema))

\* One add_column call: the name just added is held with the data of this
\* call, every other entry is kept as it was, and no entry is lost.
AddColumnStep ==
    /\ NameSet(schema') = NameSet(schema) \cup {added'.name}
    /\ \E i \in 1..Len(schema') : schema'[i] = added'
    /\ \A i \in 1..Len(schema) :
          schema[i].name # added'.name => \E k \in 1..Len(schema') : schema'[k] = schema[i]
    /\ Len(schema') >= Len(schema)

\* C26: after any sequence of add_column calls the schema holds one entry per
\* distinct name ever added, carrying the data_type, required flag and
\* description of the most recent add_column for that name; the number of
\* columns never decreases; get_required_columns and get_optional_columns are
\* disjoint and together list every column name exactly once.
C26_SchemaKeepsLatestDefinition ==
    /\ [](OneEntryPerName /\ RequiredAndOptionalPartition)
    /\ [][AddColumnStep]_vars

C26_Witness ==
    /\ op = "add_column"
    /\ Len(schema) = 2
    /\ schema[1] = added
    /\ added.required
    /\ added.data_type = INTEGER
    /\ added.description = "text"
    /\ get_required_columns(schema) = <<schema[1].name>>
    /\ get_optional_columns(schema) = <<schema[2].name>>

(***************************************************************************)
(* The similarity score.                                                   *)
(***************************************************************************)
EqualScores(p, q) == p[2] > 0 /\ q[2] > 0 /\ p[1] * q[2] = q[1] * p[2]

OneInOther(a, b) == Contains(a, b) \/ Contains(b, a)

Jaccard(a, b) ==
    <<Cardinality(Range(a) \cap Range(b)), Cardinality(Range(a) \cup Range(b))>>

\* C21: _calculate_similarity(a, b) is 1.0 if a == b; otherwise 0.8 if one
\* string is a substring of the other; otherwise the Jaccard index of their
\* sets of characters; and it is 0 when one string is empty and the other is
\* not.
C21_SimilarityByCases ==
    op = "_calculate_similarity" =>
        LET a == strings[1]
            b == strings[2]
        IN IF a = b THEN EqualScores(similarity, <<1, 1>>)
           ELSE IF a = <<>> \/ b = <<>> THEN similarity[1] = 0
           ELSE IF OneInOther(a, b) THEN EqualScores(similarity, <<4, 5>>)
           ELSE EqualScores(similarity, Jaccard(a, b))

\* C29 as stated: for two different strings the score lies in 0.0 <= score <
\* 1.0; the score 1.0 is returned only for identical strings.
C29_OneOnlyForIdentical ==
    (op = "_calculate_similarity" /\ strings[1] # strings[2]) =>
        /\ 0 <= similarity[1]
        /\ similarity[1] < similarity[2]

\* C29, amended: for any two strings the score lies in 0.0 <= score <= 1.0; for
\* two different strings it is 1.0 exactly when neither is a substring of the
\* other and both consist of the same set of characters, and below 1.0
\* otherwise.
C29_OneForEqualCharacterSets ==
    op = "_calculate_similarity" =>
        /\ 0 <= similarity[1]
        /\ similarity[1] <= similarity[2]
        /\ strings[1] # strings[2] =>
              (similarity[1] = similarity[2]
                 <=> /\ ~OneInOther(strings[1], strings[2])
                     /\ Range(strings[1]) = Range(strings[2]))

C29_Witness ==
    /\ op = "_calculate_similarity"
    /\ strings[1] # strings[2]
    /\ Len(strings[1]) = 4
    /\ Range(strings[1]) = Range(strings[2])
    /\ similarity = <<4, 4>>

(***************************************************************************)
(* Type inference.                                                         *)
(***************************************************************************)
Detected(i) == op = "_detect_column_type" /\ detected[i] # Undetected

\* C22: for a column whose storage is already typed the inferred type depends
\* on the storage type alone: any signed or unsigned integer storage gives
\* INTEGER, Float32 and Float64 give FLOAT, Boolean gives BOOLEAN, Date and
\* Datetime both give DATETIME (DATE is never inferred), Time gives TIME, and
\* any other storage that is not text gives STRING.
C22_TypedStorageDecides ==
    \A i \in 1..Len(detected) :
        Detected(i) =>
            /\ detected[i] # DATE
            /\ df[i].dtype # "Utf8" =>
                  detected[i] =
                      CASE df[i].dtype \in IntegerStorage -> INTEGER
                        [] df[i].dtype \in {"Float32", "Float64"} -> FLOAT
                        [] df[i].dtype = "Boolean" -> BOOLEAN_T
                        [] df[i].dtype \in {"Date", "Datetime"} -> DATETIME
                        [] df[i].dtype = "Time" -> TIME
                        [] OTHER -> STRING_T

C22_Witness ==
    /\ Detected(1)
    /\ df[1].dtype = "UInt16"
    /\ detected[1] = INTEGER

\* The values _detect_column_type samples: the non-null ones of the first 100 rows.
SampledValues(column) ==
    SelectSeq(SubSeq(column.values, 1,
                     IF Len(column.values) < 100 THEN Len(column.values) ELSE 100),
              LAMBDA v : v # Null)

ParsesAsDatetime(values) == \E i \in 1..Len(values) : values[i][2] \in TemporalText

CoercesToFloat(values) ==
    Cardinality({i \in 1..Len(values) : values[i][2] \in FloatText})

\* C23: for a text column the probes apply in this order: DATETIME if the
\* permissive datetime parse of the sampled values raises no error; otherwise
\* FLOAT if the number of sampled values that coerce to a non-null float is
\* strictly greater than 80% of the sample size; otherwise STRING.  The call
\* never raises, and a sample at exactly 80% numeric is STRING.
C23_ProbesOnSampledValues ==
    \A i \in 1..Len(detected) :
        (Detected(i) /\ df[i].dtype = "Utf8" /\ SampledValues(df[i]) # <<>>) =>
            /\ ~raised
            /\ detected[i] =
                  IF ParsesAsDatetime(SampledValues(df[i])) THEN DATETIME
                  ELSE IF CoercesToFloat(SampledValues(df[i])) * 5
                             > Len(SampledValues(df[i])) * 4
                       THEN FLOAT
                       ELSE STRING_T

\* C24 as stated: a text column whose sample is empty (no rows, or only nulls
\* sampled) is classified DATETIME, not STRING.
C24_EmptySampleIsDatetime ==
    \A i \in 1..Len(detected) :
        (Detected(i) /\ df[i].dtype = "Utf8" /\ SampledValues(df[i]) = <<>>) =>
            detected[i] = DATETIME

\* C24, amended: a text column whose sample is empty (no rows, or only nulls
\* sampled) is classified STRING: no probe runs on an empty sample.
C24_EmptySampleIsString ==
    \A i \in 1..Len(detected) :
        (Detected(i) /\ df[i].dtype = "Utf8" /\ SampledValues(df[i]) = <<>>) =>
            detected[i] = STRING_T

C24_Witness ==
    /\ Detected(1)
    /\ df[1].dtype = "Utf8"
    /\ Len(df[1].values) = 2
    /\ SampledValues(df[1]) = <<>>
    /\ detected[1] = STRING_T

FirstNonNull(column) ==
    LET present == SelectSeq(column.values, LAMBDA v : v # Null)
    IN SubSeq(present, 1, IF Len(present) < 100 THEN Len(present) ELSE 100)

\* C27: the type inferred for a text column is determined by its sample, at
\* most the first 100 non-null values of the column: two text columns whose
\* first 100 non-null values are equal receive the same DataType, whatever
\* values follow.
C27_SampleAloneDecides ==
    \A i, k \in 1..Len(detected) :
        (/\ Detected(i) /\ Detected(k)
         /\ df[i].dtype = "Utf8" /\ df[k].dtype = "Utf8"
         /\ FirstNonNull(df[i]) = FirstNonNull(df[k]))
        => detected[i] = detected[k]

(***************************************************************************)
(* What a successful result carries.                                       *)
(***************************************************************************)
\* C25: in every successful ImportResult, result.mappings lists only the
\* mappings that were applied: each listed mapping has a column named by its
\* target_column in result.data, a mapping skipped because its source column
\* was missing is not listed, and the number of listed mappings equals the
\* number of output columns.
C25_MappingsAreTheAppliedOnes ==
    (op \in {"process_dataframe", "process_data"} /\ result.success) =>
        /\ \A i \in 1..Len(result.mappings) :
              /\ result.mappings[i].target_column \in ColumnSet(result.data.table)
              /\ Present(result.mappings[i])
        /\ Len(result.mappings) = Len(result.data.table)

\* C30: whenever process_data returns success, every required column of the
\* engine's schema is a column of result.data.
C30_SuccessHasRequiredColumns ==
    (op = "process_data" /\ result.success) =>
        RequiredOf(schema) \subseteq ColumnSet(result.data.table)

(***************************************************************************)
(* Suggest, then process.                                                  *)
(***************************************************************************)
\* C28: for any table with at least one column, on an engine with the default
\* empty schema, passing the unedited result of suggest_mappings(table) to
\* process_data(table, ...) returns success.
C28_SuggestionsProcessUnedited ==
    (/\ op = "process_data"
     /\ Len(df) >= 1
     /\ schema = <<>>
     /\ mappings = suggest_mappings(schema, df))
    => result.success

====
